---- MODULE Spec2Model ----
(***************************************************************************)
(* Verification development for the jspcap / pcapkit protocol decoders:    *)
(*   - ARP family decoder        (pcapkit/protocols/link/arp.py)           *)
(*   - Internet-layer dispatch   (dev/jspcap/protocols/internet/...)       *)
(*   - HTTP/1.x decoder          (src/protocols/application/httpv1.py)     *)
(*                                                                         *)
(* Octets of ARP / Internet buffers are integers 0..255.  HTTP payloads    *)
(* are sequences of one-character strings, so that the regular             *)
(* expressions, splits and replacements of the decoder are computed on     *)
(* characters, as the code computes them.                                  *)
(***************************************************************************)
EXTENDS Integers, Sequences, FiniteSets, TLC

VARIABLES
    file,     \* self._file: the buffer under the cursor
    pos,      \* self._file.tell(): the cursor's read position
    pc,       \* position of the running decoder
    loc,      \* local variables of the running decoder
    info,     \* what the decoder returned, or the error it raised
    sent      \* how the sender built the buffer (the decoder never reads it)

vars == <<file, pos, pc, loc, info, sent>>

NoneValue == [type |-> "None"]

Raised(kind) == [type |-> "raise", error |-> kind]

IsRaised(x) == x.type = "raise"

Min(a, b) == IF a < b THEN a ELSE b

RECURSIVE Concat(_)
\* the concatenation of a sequence of sequences
Concat(ss) == IF ss = <<>> THEN <<>> ELSE Head(ss) \o Concat(Tail(ss))

(***************************************************************************)
(* Byte cursor                                                             *)
(***************************************************************************)

\* bytes left under the cursor
Remaining(f, p) == Len(f) - p

\* self._read_fileng(n): n octets from the cursor, UnexpectedEnd when fewer remain
ReadFileng(f, p, n) ==
    IF Remaining(f, p) < n
        THEN Raised("UnexpectedEnd")
        ELSE [type |-> "bytes", val |-> SubSeq(f, p + 1, p + n), end |-> p + n]

RECURSIVE BigEndian(_)
BigEndian(bs) ==
    IF bs = <<>> THEN 0 ELSE BigEndian(SubSeq(bs, 1, Len(bs) - 1)) * 256 + bs[Len(bs)]

\* self._read_unpack(n): n octets as a big-endian unsigned integer
ReadUnpack(f, p, n) ==
    LET r == ReadFileng(f, p, n)
    IN  IF IsRaised(r) THEN r ELSE [type |-> "int", val |-> BigEndian(r.val), end |-> r.end]

\* self._file.read(): every octet left; the cursor is at the end afterwards
ReadAll(f, p) == [val |-> SubSeq(f, p + 1, Len(f)), end |-> Len(f)]

(***************************************************************************)
(* ARP family decoder                                                      *)
(***************************************************************************)

HexDigit == <<"0", "1", "2", "3", "4", "5", "6", "7",
              "8", "9", "a", "b", "c", "d", "e", "f">>

\* bytes.hex() of one octet
Hex2(b) == <<HexDigit[(b \div 16) + 1], HexDigit[(b % 16) + 1]>>

RECURSIVE HexOf(_)
\* bytes.hex()
HexOf(bs) == IF bs = <<>> THEN <<>> ELSE Hex2(Head(bs)) \o HexOf(Tail(bs))

RECURSIVE Wrap2(_)
\* textwrap.wrap(text, 2) of a text without whitespace: pieces of width 2
Wrap2(t) ==
    IF t = <<>> THEN <<>>
    ELSE <<SubSeq(t, 1, Min(2, Len(t)))>> \o Wrap2(SubSeq(t, Min(2, Len(t)) + 1, Len(t)))

RECURSIVE JoinWith(_, _)
\* sep.join(parts)
JoinWith(sep, parts) ==
    IF parts = <<>> THEN <<>>
    ELSE IF Len(parts) = 1 THEN Head(parts)
    ELSE Head(parts) \o sep \o JoinWith(sep, Tail(parts))

\* ':'.join(textwrap.wrap(_byte.hex(), 2))
MacText(bs) == JoinWith(<<":">>, Wrap2(HexOf(bs)))

ETHERNET == 1

IPV4_TYPE == 2048

IPV6_TYPE == 34525

\* number of octets _read_addr_resolve asks the cursor for
AddrReadLen(length, htype) == IF htype = ETHERNET THEN 6 ELSE length

\* ARP._read_addr_resolve(length, htype)
ReadAddrResolve(f, p, length, htype) ==
    LET r == ReadFileng(f, p, AddrReadLen(length, htype))
    IN  IF IsRaised(r) THEN r
        ELSE IF htype = ETHERNET
            THEN [type |-> "str", val |-> MacText(r.val), end |-> r.end]
            ELSE r

\* ipaddress.ip_address(packed): 4 octets IPv4, 16 octets IPv6, ValueError otherwise
IpAddress(bs) ==
    IF Len(bs) = 4 THEN [type |-> "IPv4Address", packed |-> bs]
    ELSE IF Len(bs) = 16 THEN [type |-> "IPv6Address", packed |-> bs]
    ELSE Raised("ValueError")

\* number of octets _read_proto_resolve asks the cursor for
ProtoReadLen(length, ptype) ==
    IF ptype = IPV4_TYPE THEN 4 ELSE IF ptype = IPV6_TYPE THEN 16 ELSE length

\* ARP._read_proto_resolve(length, ptype)
ReadProtoResolve(f, p, length, ptype) ==
    LET r == ReadFileng(f, p, ProtoReadLen(length, ptype))
    IN  IF IsRaised(r) THEN r
        ELSE IF ptype = IPV4_TYPE \/ ptype = IPV6_TYPE
            THEN LET a == IpAddress(r.val)
                 IN  IF IsRaised(a) THEN a
                     ELSE [type |-> a.type, packed |-> a.packed, end |-> r.end]
            ELSE r

\* a variant selection that lost the InARP branch
ARPVariant_NoInARP(oper) ==
    IF oper \in {5, 6, 7}
        THEN [acnm |-> "DRARP", name |-> "Dynamic Reverse Address Resolution Protocol"]
    ELSE IF oper \in {3, 4}
        THEN [acnm |-> "RARP", name |-> "Reverse Address Resolution Protocol"]
    ELSE [acnm |-> "ARP", name |-> "Address Resolution Protocol"]

\* read_arp: the protocol variant chosen from the operation code
ARPVariant(oper) ==
    IF oper \in {5, 6, 7}
        THEN [acnm |-> "DRARP", name |-> "Dynamic Reverse Address Resolution Protocol"]
    ELSE IF oper \in {8, 9}
        THEN [acnm |-> "InARP", name |-> "Inverse Address Resolution Protocol"]
    ELSE IF oper \in {3, 4}
        THEN [acnm |-> "RARP", name |-> "Reverse Address Resolution Protocol"]
    ELSE [acnm |-> "ARP", name |-> "Address Resolution Protocol"]

\* read_arp: the emitted header length
ARPHeaderLen(hl, pl) == 8 + hl * 2 + pl * 2

\* the value part of what a resolve call returned (its cursor position dropped)
Value(r) == IF r.type \in {"IPv4Address", "IPv6Address"}
                THEN [type |-> r.type, packed |-> r.packed]
                ELSE [type |-> r.type, val |-> r.val]

----
\* Inputs of the ARP decoder

MaxHLen == 8

MaxOper == 10

HTypes == {ETHERNET, 6}

PTypes == {IPV4_TYPE, IPV6_TYPE, 2054}

HLens == 0 .. MaxHLen

PLens == {0, 4, 6, 16}

Opers == (0 .. MaxOper) \cup {65535}

\* octets that follow the ARP header in the buffer (padding / payload)
Trailers == {0, 30}

U16(n) == <<n \div 256, n % 256>>

\* the i-th address octet the sender wrote
Fill(i) == (171 + 17 * i) % 256

ARPWire(s) ==
    U16(s.htype) \o U16(s.ptype) \o <<s.hlen, s.plen>> \o U16(s.oper)
    \o [i \in 1 .. (2 * s.hlen + 2 * s.plen + s.trail) |-> Fill(i)]

ARPInputs ==
    [htype : HTypes, ptype : PTypes, hlen : HLens, plen : PLens,
     oper : Opers, trail : Trailers]

ARPInit ==
    /\ sent \in ARPInputs
    /\ file = ARPWire(sent)
    /\ pos = 0
    /\ pc = "read_arp"
    /\ loc = [stage |-> "start"]
    /\ info = NoneValue

\* read_arp, lines 192-196: the eight-octet fixed prefix
read_prefix ==
    /\ pc = "read_arp"
    /\ LET hw == ReadUnpack(file, pos, 2)
           pt == ReadUnpack(file, pos + 2, 2)
           hl == ReadUnpack(file, pos + 4, 1)
           pl == ReadUnpack(file, pos + 5, 1)
           op == ReadUnpack(file, pos + 6, 2)
       IN  IF IsRaised(op)
             THEN /\ pc' = "raised"
                  /\ info' = op
                  /\ UNCHANGED <<pos, loc>>
             ELSE /\ pc' = "shwa"
                  /\ pos' = op.end
                  /\ loc' = [stage |-> "prefix", hwty |-> hw.val, ptty |-> pt.val,
                             hlen |-> hl.val, plen |-> pl.val, oper |-> op.val]
                  /\ info' = info
    /\ UNCHANGED <<file, sent>>

\* one address read of read_arp (lines 197-200): field `at`, then on to `next`
ReadAddress(at, next, r) ==
    /\ pc = at
    /\ IF IsRaised(r)
         THEN /\ pc' = "raised"
              /\ info' = r
              /\ UNCHANGED <<pos, loc>>
         ELSE /\ pc' = next
              /\ pos' = r.end
              /\ loc' = [f \in (DOMAIN loc) \cup {at} |->
                            IF f = at THEN Value(r)
                            ELSE IF f = "stage" THEN at ELSE loc[f]]
              /\ info' = info
    /\ UNCHANGED <<file, sent>>

read_shwa ==
    /\ pc = "shwa"
    /\ ReadAddress("shwa", "spta", ReadAddrResolve(file, pos, loc.hlen, loc.hwty))

read_spta ==
    /\ pc = "spta"
    /\ ReadAddress("spta", "thwa", ReadProtoResolve(file, pos, loc.plen, loc.ptty))

read_thwa ==
    /\ pc = "thwa"
    /\ ReadAddress("thwa", "tpta", ReadAddrResolve(file, pos, loc.hlen, loc.hwty))

read_tpta ==
    /\ pc = "tpta"
    /\ ReadAddress("tpta", "emit", ReadProtoResolve(file, pos, loc.plen, loc.ptty))

\* read_arp, lines 202-232: the variant names and the emitted record
emit_arp ==
    /\ pc = "emit"
    /\ pc' = "done"
    /\ info' = [type |-> "arp",
                acnm |-> ARPVariant(loc.oper).acnm,
                name |-> ARPVariant(loc.oper).name,
                hlen |-> loc.hlen, plen |-> loc.plen,
                sha |-> loc.shwa, spa |-> loc.spta,
                tha |-> loc.thwa, tpa |-> loc.tpta,
                len |-> ARPHeaderLen(loc.hlen, loc.plen)]
    /\ UNCHANGED <<file, pos, loc, sent>>

ARPNext ==
    \/ read_prefix
    \/ read_shwa
    \/ read_spta
    \/ read_thwa
    \/ read_tpta
    \/ emit_arp

SpecARP == ARPInit /\ [][ARPNext]_vars

----
\* Claims about the ARP decoder

\* the rendering the specification gives a hardware address of hl octets
HardwareRendering(ht, hl, bs) ==
    IF ht = 1 /\ hl = 6 THEN [type |-> "str", val |-> MacText(bs)]
    ELSE [type |-> "bytes", val |-> bs]

\* the rendering the specification gives a protocol address of pl octets
ProtocolRendering(pt, pl, bs) ==
    IF pt = 2048 /\ pl = 4 THEN [type |-> "IPv4Address", packed |-> bs]
    ELSE IF pt = 34525 /\ pl = 16 THEN [type |-> "IPv6Address", packed |-> bs]
    ELSE [type |-> "bytes", val |-> bs]

\* C2: every hardware address read (sha, tha) that succeeds takes exactly hlen
\* octets from the cursor, and its value is the colon-joined lowercase hex of
\* those octets when htype = 1 and hlen = 6, the raw hlen octets otherwise.
C2_HardwareAddressTakesHlen ==
    [][(pc \in {"shwa", "thwa"} /\ pc' # "raised") =>
          /\ pos' = pos + sent.hlen
          /\ loc'[pc] = HardwareRendering(sent.htype, sent.hlen,
                                          SubSeq(file, pos + 1, pos + sent.hlen))]_vars

\* C3: every protocol address read (spa, tpa) that succeeds takes exactly plen
\* octets from the cursor, and its value is an IPv4 address only for
\* ptype = 0x0800 with plen = 4, an IPv6 address only for ptype = 0x86dd with
\* plen = 16, and the raw plen octets in every other case.
C3_ProtocolAddressTakesPlen ==
    [][(pc \in {"spta", "tpta"} /\ pc' # "raised") =>
          /\ pos' = pos + sent.plen
          /\ loc'[pc] = ProtocolRendering(sent.ptype, sent.plen,
                                          SubSeq(file, pos + 1, pos + sent.plen))]_vars

\* C4: when read_arp has decoded a header, the octets read from the cursor
\* equal the emitted header length len = 8 + 2*hlen + 2*plen.
C4_OctetsReadEqualLen ==
    pc = "done" => (pos = info.len /\ info.len = 8 + 2 * sent.hlen + 2 * sent.plen)

\* the variant table of the specification
VariantTable(op) ==
    IF op \in {1, 2} THEN <<"ARP", "Address Resolution Protocol">>
    ELSE IF op \in {3, 4} THEN <<"RARP", "Reverse Address Resolution Protocol">>
    ELSE IF op \in {5, 6, 7}
        THEN <<"DRARP", "Dynamic Reverse Address Resolution Protocol">>
    ELSE IF op \in {8, 9} THEN <<"InARP", "Inverse Address Resolution Protocol">>
    ELSE <<"ARP", "Address Resolution Protocol">>

\* C5: the short and long name of a decoded header are those the variant table
\* gives the operation code on the wire (plain ARP for every code outside
\* 1..9), and a decode that fails fails in a cursor read, never in the
\* variant selection.
C5_VariantFromOper ==
    /\ pc = "done" => <<info.acnm, info.name>> = VariantTable(sent.oper)
    /\ pc = "raised" => (info.error \in {"UnexpectedEnd", "ValueError"}
                          /\ loc.stage # "tpta")

\* an InARP header (operation code 8) has been decoded
C5_Witness == pc = "done" /\ sent.oper = 8 /\ info.acnm = "InARP"

(***************************************************************************)
(* HTTP/1.x decoder: texts are sequences of one-character strings          *)
(***************************************************************************)

CRLF == <<"\r", "\n">>

\* the separator of read_http: b'\r\n\r\n'
SEPARATOR == <<"\r", "\n", "\r", "\n">>

\* what \s matches in a bytes pattern; "VT" stands for the vertical tab
Whitespace == {" ", "\t", "\n", "\r", "\f", "VT"}

\* what \d matches in a bytes pattern
Digits == {"0", "1", "2", "3", "4", "5", "6", "7", "8", "9"}

\* octets that are no valid UTF-8: "0xff" stands for the octet 0xff
Undecodable == {"0xff"}

IsPrefix(w, s) == Len(w) <= Len(s) /\ SubSeq(s, 1, Len(w)) = w

RECURSIVE FindFrom(_, _, _)
\* bytes.find(sep, i): index of the first occurrence of sep at or after i, 0 if none
FindFrom(s, sep, i) ==
    IF i + Len(sep) - 1 > Len(s) THEN 0
    ELSE IF SubSeq(s, i, i + Len(sep) - 1) = sep THEN i
    ELSE FindFrom(s, sep, i + 1)

RECURSIVE SplitMax(_, _, _)
\* bytes.split(sep, maxsplit): at most maxsplit cuts, leftmost first
SplitMax(s, sep, maxsplit) ==
    LET i == FindFrom(s, sep, 1)
    IN  IF maxsplit = 0 \/ i = 0 THEN <<s>>
        ELSE <<SubSeq(s, 1, i - 1)>>
             \o SplitMax(SubSeq(s, i + Len(sep), Len(s)), sep, maxsplit - 1)

\* bytes.split(sep): every occurrence
SplitAll(s, sep) == SplitMax(s, sep, Len(s))

RECURSIVE FirstIn(_, _, _)
\* index of the first character of s at or after i that is in S, 0 if none
FirstIn(s, S, i) ==
    IF i > Len(s) THEN 0 ELSE IF s[i] \in S THEN i ELSE FirstIn(s, S, i + 1)

RECURSIVE RunEnd(_, _)
\* index of the last character of the whitespace run that covers i .. (i-1 if none)
RunEnd(s, i) ==
    IF i <= Len(s) /\ s[i] \in Whitespace THEN RunEnd(s, i + 1) ELSE i - 1

RECURSIVE RunStart(_, _)
\* index of the first character of the whitespace run that ends at i (i+1 if none)
RunStart(s, i) ==
    IF i >= 1 /\ s[i] \in Whitespace THEN RunStart(s, i - 1) ELSE i + 1

RECURSIVE ReSplitWs(_, _)
\* re.split(b'\s+', s, maxsplit)
ReSplitWs(s, maxsplit) ==
    LET i == FirstIn(s, Whitespace, 1)
    IN  IF maxsplit = 0 \/ i = 0 THEN <<s>>
        ELSE <<SubSeq(s, 1, i - 1)>>
             \o ReSplitWs(SubSeq(s, RunEnd(s, i) + 1, Len(s)), maxsplit - 1)

\* re.split(b'\s*:\s*', s, 1): the leftmost match is the first colon with the
\* whitespace around it
ReSplitColon(s) ==
    LET c == FirstIn(s, {":"}, 1)
    IN  IF c = 0 THEN <<s>>
        ELSE <<SubSeq(s, 1, RunStart(s, c - 1) - 1), SubSeq(s, RunEnd(s, c + 1) + 1, Len(s))>>

\* bytes.decode(): UnicodeDecodeError on an octet that is no UTF-8
Decode(bs) ==
    IF \E i \in 1 .. Len(bs) : bs[i] \in Undecodable
        THEN Raised("UnicodeDecodeError")
        ELSE [type |-> "str", val |-> bs]

RECURSIVE LStrip(_)
LStrip(t) == IF t # <<>> /\ Head(t) \in Whitespace THEN LStrip(Tail(t)) ELSE t

RECURSIVE RStrip(_)
RStrip(t) ==
    IF t # <<>> /\ t[Len(t)] \in Whitespace THEN RStrip(SubSeq(t, 1, Len(t) - 1)) ELSE t

\* str.strip()
Strip(t) == RStrip(LStrip(t))

RECURSIVE Replace(_, _, _)
\* str.replace(old, new): every occurrence, left to right, without overlap
Replace(t, old, new) ==
    IF Len(t) < Len(old) THEN t
    ELSE IF IsPrefix(old, t) THEN new \o Replace(SubSeq(t, Len(old) + 1, Len(t)), old, new)
    ELSE <<Head(t)>> \o Replace(Tail(t), old, new)

REQUEST == <<"r", "e", "q", "u", "e", "s", "t">>

RESPONSE == <<"r", "e", "s", "p", "o", "n", "s", "e">>

REQUEST_FIELD == <<"r", "e", "q", "u", "e", "s", "t", "_", "f", "i", "e", "l", "d">>

RESPONSE_FIELD == <<"r", "e", "s", "p", "o", "n", "s", "e", "_", "f", "i", "e", "l", "d">>

\* a key that renames only a name equal to `request` or `response`
HeaderKey_ExactOnly(name) ==
    IF Strip(name) = REQUEST THEN REQUEST_FIELD
    ELSE IF Strip(name) = RESPONSE THEN RESPONSE_FIELD
    ELSE Strip(name)

\* a key that is the stripped name, nothing renamed
HeaderKey_NoRename(name) == Strip(name)

\* _read_http_header, line 161: the key a decoded field name is stored under
HeaderKey(name) ==
    Replace(Replace(Strip(name), REQUEST, REQUEST_FIELD), RESPONSE, RESPONSE_FIELD)

\* _RE_METHOD
METHODS == {<<"G", "E", "T">>,
            <<"H", "E", "A", "D">>,
            <<"P", "O", "S", "T">>,
            <<"P", "U", "T">>,
            <<"D", "E", "L", "E", "T", "E">>,
            <<"C", "O", "N", "N", "E", "C", "T">>,
            <<"O", "P", "T", "I", "O", "N", "S">>,
            <<"T", "R", "A", "C", "E">>}

HTTP_SLASH == <<"H", "T", "T", "P", "/">>

\* re.match(_RE_METHOD, s): one of the methods starts s
MatchMethod(s) == \E w \in METHODS : IsPrefix(w, s)

\* re.match(_RE_VERSION, s): HTTP/<d>.<d> starts s
MatchVersion(s) ==
    /\ Len(s) >= 8
    /\ IsPrefix(HTTP_SLASH, s)
    /\ s[6] \in Digits
    /\ s[7] = "."
    /\ s[8] \in Digits

\* match.group('version')
VersionGroup(s) == SubSeq(s, 6, 8)

\* re.match(_RE_STATUS, s): three digits start s
MatchStatus(s) == Len(s) >= 3 /\ \A i \in 1 .. 3 : s[i] \in Digits

DigitValue(c) ==
    CASE c = "0" -> 0 [] c = "1" -> 1 [] c = "2" -> 2 [] c = "3" -> 3 [] c = "4" -> 4
      [] c = "5" -> 5 [] c = "6" -> 6 [] c = "7" -> 7 [] c = "8" -> 8 [] c = "9" -> 9

RECURSIVE Decimal(_)
Decimal(t) ==
    IF t = <<>> THEN 0 ELSE Decimal(SubSeq(t, 1, Len(t) - 1)) * 10 + DigitValue(t[Len(t)])

\* int(text) of a text that starts with a digit and holds no whitespace:
\* digits, single underscores allowed between digits; ValueError otherwise
IntOf(t) ==
    LET ok == /\ t # <<>>
              /\ \A i \in 1 .. Len(t) : t[i] \in Digits \cup {"_"}
              /\ t[1] # "_" /\ t[Len(t)] # "_"
              /\ \A i \in 1 .. Len(t) - 1 : ~(t[i] = "_" /\ t[i + 1] = "_")
    IN  IF ok THEN [type |-> "int", val |-> Decimal(SelectSeq(t, LAMBDA c : c # "_"))]
        ELSE Raised("ValueError")

\* key in header / header[key]: position of the key in the ordered dict, 0 if absent
KeyIndex(h, k) ==
    IF \E i \in 1 .. Len(h) : h[i].key = k
        THEN CHOOSE i \in 1 .. Len(h) : h[i].key = k
        ELSE 0

\* a store that keeps only the last value of a repeated name
StoreField_LastWins(h, key, value) ==
    LET i == KeyIndex(h, key)
    IN  IF i = 0 THEN Append(h, [key |-> key, val |-> value])
        ELSE [h EXCEPT ![i].val = value]

\* _read_http_header, lines 163-169: one field into the ordered dict
StoreField(h, key, value) ==
    LET i == KeyIndex(h, key)
    IN  IF i = 0 THEN Append(h, [key |-> key, val |-> value])
        ELSE IF h[i].val.type = "tuple"
            THEN [h EXCEPT ![i].val = [type |-> "tuple", val |-> Append(h[i].val.val, value)]]
            ELSE [h EXCEPT ![i].val = [type |-> "tuple", val |-> <<h[i].val, value>>]]

RECURSIVE StoreFields(_, _)
\* _read_http_header, lines 160-169: the loop over the split field lines
StoreFields(h, items) ==
    IF items = <<>> THEN [type |-> "ok", header |-> h]
    ELSE LET item == Head(items)
             k == Decode(item[1])
         IN  IF IsRaised(k) THEN k
             ELSE IF Len(item) < 2 THEN Raised("IndexError")
             ELSE LET v == Decode(item[2])
                  IN  IF IsRaised(v) THEN v
                      ELSE StoreFields(
                               StoreField(h, HeaderKey(k.val),
                                          [type |-> "str", val |-> Strip(v.val)]),
                               Tail(items))

\* _read_http_header, lines 134-157: the start line classified
StartLine(para1, para2, para3) ==
    IF MatchMethod(para1) /\ MatchVersion(para3)
        THEN LET method == Decode(para1)
                 target == Decode(para2)
             IN  IF IsRaised(method) THEN method
                 ELSE IF IsRaised(target) THEN target
                 ELSE [type |-> "ok", receipt |-> "request",
                       header |-> <<[key |-> REQUEST,
                                     val |-> [type |-> "dict",
                                              method |-> method.val,
                                              target |-> target.val,
                                              version |-> VersionGroup(para3)]]>>]
    ELSE IF MatchVersion(para1) /\ MatchStatus(para2)
        THEN LET text == Decode(para2)
                 status == IF IsRaised(text) THEN text ELSE IntOf(text.val)
                 phrase == Decode(para3)
             IN  IF IsRaised(status) THEN status
                 ELSE IF IsRaised(phrase) THEN phrase
                 ELSE [type |-> "ok", receipt |-> "response",
                       header |-> <<[key |-> RESPONSE,
                                     val |-> [type |-> "dict",
                                              version |-> VersionGroup(para1),
                                              status |-> status.val,
                                              phrase |-> phrase.val]]>>]
    ELSE Raised("ProtocolError")

\* HTTPv1._read_http_header(header)
ReadHttpHeader(header) ==
    LET parts == SplitMax(header, CRLF, 1)
    IN  IF Len(parts) # 2 THEN Raised("ProtocolError")
        ELSE LET paras == ReSplitWs(parts[1], 2)
             IN  IF Len(paras) # 3 THEN Raised("ProtocolError")
                 ELSE LET fields == SplitAll(parts[2], CRLF)
                          lists == [i \in 1 .. Len(fields) |-> ReSplitColon(fields[i])]
                          start == StartLine(paras[1], paras[2], paras[3])
                      IN  IF IsRaised(start) THEN start
                          ELSE LET stored == StoreFields(start.header, lists)
                               IN  IF IsRaised(stored)
                                     THEN IF stored.error = "IndexError"
                                            THEN Raised("ProtocolError")
                                            ELSE stored
                                     ELSE [type |-> "ok", header |-> stored.header,
                                           receipt |-> start.receipt]

\* octets above 0x7f: "0xef", "0xbb", "0xbf" stand for the octets of the
\* UTF-8 byte order mark
NonAscii == {"0xff", "0xef", "0xbb", "0xbf"}

\* codecs.BOM_UTF8
BOM_UTF8 == <<"0xef", "0xbb", "0xbf">>

\* the charset names Python has a codec for, among those detection reports
PythonCodecs == {"ascii", "UTF-8-SIG"}

\* body.decode(charset): LookupError for a name Python has no codec for
\* (chardet reports EUC-TW, ISO-2022-CN), UnicodeDecodeError for octets the
\* codec cannot decode; UTF-8-SIG drops a leading byte order mark
DecodeWith(body, charset) ==
    IF charset \notin PythonCodecs THEN Raised("LookupError")
    ELSE LET rest == IF charset = "UTF-8-SIG" /\ IsPrefix(BOM_UTF8, body)
                         THEN SubSeq(body, 4, Len(body))
                         ELSE body
         IN  IF \E i \in 1 .. Len(rest) : rest[i] \in NonAscii
                 THEN Raised("UnicodeDecodeError")
                 ELSE [type |-> "str", val |-> rest]

\* HTTPv1._read_http_body(body); detect is chardet.detect(body)['encoding']
ReadHttpBody(body, detect) ==
    IF detect = "None" THEN NoneValue
    ELSE LET text == DecodeWith(body, detect)
         IN  IF IsRaised(text) /\ text.error = "UnicodeDecodeError"
                 THEN [type |-> "bytes", val |-> body]
                 ELSE text

\* read_http, line 102: x or None
OrNone(x) == IF x.type = "None" \/ x.val = <<>> THEN NoneValue ELSE x

\* a split at the last separator of the payload
SplitPacket_AtLast(packet) ==
    LET parts == SplitAll(packet, SEPARATOR)
    IN  IF Len(parts) < 2 THEN parts
        ELSE <<JoinWith(SEPARATOR, SubSeq(parts, 1, Len(parts) - 1)), parts[Len(parts)]>>

\* read_http, line 97: packet.split(b'\r\n\r\n', 1)
SplitPacket(packet) == SplitMax(packet, SEPARATOR, 1)

\* HTTPv1.read_http(length), after the read of the payload
ReadHttp(packet, detect) ==
    LET parts == SplitPacket(packet)
    IN  IF Len(parts) # 2 THEN Raised("ProtocolError")
        ELSE LET h == ReadHttpHeader(parts[1])
             IN  IF IsRaised(h) THEN h
                 ELSE LET body == ReadHttpBody(parts[2], detect)
                      IN  IF IsRaised(body) THEN body
                          ELSE [type |-> "http",
                                keys |-> <<"receipt", "header", "body">>,
                                receipt |-> h.receipt,
                                header |-> h.header,
                                body |-> OrNone(body)]

\* the key of the header record that self._info.receipt names
ReceiptKey(receipt) == IF receipt = "request" THEN REQUEST ELSE RESPONSE

\* HTTPv1.alias, lines 76-79: HTTP/ and header[receipt].version
Alias(http) ==
    LET i == KeyIndex(http.header, ReceiptKey(http.receipt))
    IN  IF i = 0 THEN Raised("KeyError")
        ELSE IF http.header[i].val.type # "dict" THEN Raised("AttributeError")
        ELSE HTTP_SLASH \o http.header[i].val.version

(***************************************************************************)
(* Internet-layer dispatch                                                 *)
(***************************************************************************)

\* TP_PROTO: the IP protocol number registry (a dict: .get gives None when
\* the key is missing)
TP_PROTO ==
    [k \in {1, 4, 6, 17, 41, 50, 51, 58, 59, 60} |->
        CASE k = 1 -> "ICMP"
          [] k = 4 -> "IPv4"
          [] k = 6 -> "TCP"
          [] k = 17 -> "UDP"
          [] k = 41 -> "IPv6"
          [] k = 50 -> "ESP"
          [] k = 51 -> "AH"
          [] k = 58 -> "ICMPv6"
          [] k = 59 -> "IPv6-NoNxt"
          [] k = 60 -> "IPv6-Opts"]

\* TP_PROTO.get(_byte)
RegistryGet(key) == IF key \in DOMAIN TP_PROTO THEN TP_PROTO[key] ELSE "None"

\* the names _import_next_layer has a decoder for
Dispatched == {"IPv4", "IPv6", "AH", "TCP", "UDP"}

\* Protocol(self._file): the next-layer decoder over the shared cursor.  It
\* reads some of the octets left and returns, or fails on what it reads.
ChildOutcomes(f, p) ==
    {[type |-> "child", length |-> n, end |-> p + n] : n \in 0 .. Remaining(f, p)}
    \cup {Raised("ProtocolError"), Raised("UnexpectedEnd")}

\* an opaque tail that keeps the empty byte string instead of None
OpaqueTail_KeepsEmpty(f, p) ==
    [type |-> "tuple2", data |-> [type |-> "bytes", val |-> ReadAll(f, p).val],
     chain |-> NoneValue]

\* _import_next_layer, lines 78-80: data = self._file.read() or None
OpaqueTail(f, p) ==
    LET r == ReadAll(f, p)
    IN  [type |-> "tuple2",
         data |-> IF r.val = <<>> THEN NoneValue ELSE [type |-> "bytes", val |-> r.val],
         chain |-> NoneValue]

----
\* Inputs of the dispatch

MaxPayload == 3

PayloadOctets == {0, 255}

ProtoBytes == {1, 4, 6, 17, 41, 51, 59, 200}

RECURSIVE SeqsUpTo(_, _)
\* the sequences over S of length at most n
SeqsUpTo(S, n) ==
    IF n = 0 THEN {<<>>}
    ELSE LET shorter == SeqsUpTo(S, n - 1)
         IN  shorter \cup {Append(q, x) : q \in shorter, x \in S}

InternetInit ==
    /\ sent \in [byte : ProtoBytes, payload : SeqsUpTo(PayloadOctets, MaxPayload)]
    /\ file = <<sent.byte>> \o sent.payload
    /\ pos = 0
    /\ pc = "read_protos"
    /\ loc = [stage |-> "start", proto |-> "None", child |-> "none"]
    /\ info = NoneValue

\* Internet._read_protos(1)
read_protos ==
    /\ pc = "read_protos"
    /\ LET b == ReadUnpack(file, pos, 1)
       IN  IF IsRaised(b)
             THEN /\ pc' = "raised"
                  /\ info' = b
                  /\ UNCHANGED <<pos, loc>>
             ELSE /\ pc' = "import_next_layer"
                  /\ pos' = b.end
                  /\ loc' = [loc EXCEPT !.stage = "protos", !.proto = RegistryGet(b.val)]
                  /\ info' = info
    /\ UNCHANGED <<file, sent>>

\* Internet._import_next_layer(proto), a known decoder: lines 68-77, 81-82.
\* Nothing catches what the decoder's constructor raises.
import_known ==
    /\ pc = "import_next_layer"
    /\ loc.proto \in Dispatched
    /\ \E next_ \in ChildOutcomes(file, pos) :
          IF IsRaised(next_)
            THEN /\ pc' = "raised"
                 /\ info' = next_
                 /\ pos' = pos
                 /\ loc' = [loc EXCEPT !.stage = "dispatch", !.child = "raised"]
            ELSE /\ pc' = "done"
                 /\ info' = [type |-> "tuple3", info |-> loc.proto,
                             chain |-> <<loc.proto>>, length |-> next_.length]
                 /\ pos' = next_.end
                 /\ loc' = [loc EXCEPT !.stage = "dispatch", !.child = "returned"]
    /\ UNCHANGED <<file, sent>>

\* Internet._import_next_layer(proto), any other name: lines 78-80
import_other ==
    /\ pc = "import_next_layer"
    /\ loc.proto \notin Dispatched
    /\ pc' = "done"
    /\ info' = OpaqueTail(file, pos)
    /\ pos' = ReadAll(file, pos).end
    /\ loc' = [loc EXCEPT !.stage = "dispatch"]
    /\ UNCHANGED <<file, sent>>

InternetNext ==
    \/ read_protos
    \/ import_known
    \/ import_other

SpecInternet == InternetInit /\ [][InternetNext]_vars

----
\* Claims about the dispatch

\* C6: a failure of the next-layer decoder started by the dispatch step does
\* not leave the dispatch step: once the step has run it has returned, with
\* a record, and where the decoder failed the octets left went to the
\* opaque fallback and the cursor is at its end.
C6_ChildFailureContained ==
    loc.stage = "dispatch" =>
        /\ pc = "done"
        /\ ~IsRaised(info)
        /\ loc.child = "raised" => (info.type = "tuple2" /\ pos = Len(file))

\* C7: for a name that is none of IPv4, IPv6, AH, TCP, UDP (a missing
\* registry entry included) the dispatch step returns; the cursor is at its
\* end; the payload is every octet that was left, None when none was; no
\* chain entry is added and no decoder is started.
C7_UnknownIsOpaque ==
    (loc.stage = "dispatch" /\ RegistryGet(sent.byte) \notin {"IPv4", "IPv6", "AH", "TCP", "UDP"}) =>
        /\ pc = "done"
        /\ pos = Len(file)
        /\ info.type = "tuple2"
        /\ info.data = IF sent.payload = <<>> THEN NoneValue
                                               ELSE [type |-> "bytes", val |-> sent.payload]
        /\ info.chain = NoneValue
        /\ loc.child = "none"

\* a protocol number without registry entry was dispatched with octets left
C7_Witness ==
    /\ pc = "done"
    /\ sent.byte = 200
    /\ loc.proto = "None"
    /\ Len(sent.payload) = 2
    /\ info.data = [type |-> "bytes", val |-> sent.payload]

(***************************************************************************)
(* HTTP/1.x decoder: inputs and the decode step                            *)
(***************************************************************************)

MaxLines == 3

\* first tokens of a start line
FirstTokens ==
    {<<"G", "E", "T">>,
     <<"D", "E", "L", "E", "T", "E">>,
     <<"G", "E", "T", "X">>,
     <<"F", "O", "O">>,
     <<"H", "T", "T", "P", "/", "1", ".", "1">>,
     <<"H", "T", "T", "P", "/", "1", ".", "0">>,
     <<"H", "T", "T", "P", "/", "1", ".">>,
     <<"H", "T", "T", "P", "/", "1", ".", "1", "x">>}

\* second tokens of a start line
SecondTokens ==
    {<<"/">>,
     <<"2", "0", "0">>,
     <<"4", "0", "4">>,
     <<"2", "0">>,
     <<"2", "0", "0", "0">>,
     <<"2", "0", "0", "a", "b", "c">>}

\* what follows the second token of a start line
ThirdTokens ==
    {<<"H", "T", "T", "P", "/", "1", ".", "1">>,
     <<"H", "T", "T", "P", "/", "1", ".", "0", "x">>,
     <<"H", "T", "T", "P", "/", "2">>,
     <<"O", "K">>,
     <<"N", "o", "t", " ", "F", "o", "u", "n", "d">>,
     <<"B", "A", "Z">>}

\* the whitespace runs between the tokens of a start line
TokenGaps == {<<" ">>, <<"\t", " ">>}

\* header field names
FieldNames ==
    {<<"H", "o", "s", "t">>,
     <<"S", "e", "t", "-", "C", "o", "o", "k", "i", "e">>,
     <<"r", "e", "q", "u", "e", "s", "t">>,
     <<"r", "e", "s", "p", "o", "n", "s", "e">>,
     <<"X", "-", "r", "e", "q", "u", "e", "s", "t", "-", "i", "d">>,
     <<"R", "e", "q", "u", "e", "s", "t">>}

\* how a field line separates its name from its value
ColonStyles == {<<":", " ">>, <<":">>, <<" ", ":", " ">>}

DigitChars == <<"1", "2", "3", "4", "5", "6", "7", "8", "9">>

\* the value of the i-th field line of a payload
FieldValue(i) == <<"v", "=", DigitChars[i]>>

\* the lists of at most n field names
NameLists(n) == SeqsUpTo(FieldNames, n)

\* field lines for a list of names
LinesOf(names) == [i \in 1 .. Len(names) |-> [name |-> names[i], value |-> FieldValue(i)]]

\* message bodies, with what charset detection makes of each
Bodies ==
    {[body |-> <<>>, detect |-> "None"]}
    \cup [body : {<<"x">>, CRLF, SEPARATOR \o <<"y">>,
                  <<"a">> \o SEPARATOR \o <<"b">>, CRLF \o SEPARATOR,
                  BOM_UTF8, BOM_UTF8 \o <<"x">>, <<"x", "0xff">>},
          detect : {"None", "ascii", "UTF-8-SIG", "EUC-TW"}]

HostLine == [name |-> <<"H", "o", "s", "t">>, value |-> <<"a">>]

AcceptLine == [name |-> <<"A", "c", "c", "e", "p", "t">>, value |-> <<"*", "/", "*">>]

\* payloads that vary the start line
StartLineInputs ==
    {[A |-> a, B |-> b, C |-> c, gap |-> g, lines |-> ls, style |-> <<":", " ">>,
      term |-> TRUE, body |-> bd.body, detect |-> bd.detect] :
        a \in FirstTokens, b \in SecondTokens, c \in ThirdTokens, g \in TokenGaps,
        ls \in {<<>>, <<HostLine>>, <<HostLine, AcceptLine>>},
        bd \in {[body |-> <<>>, detect |-> "None"],
                [body |-> <<"h", "i">>, detect |-> "ascii"]}}

\* payloads that vary the header fields
FieldInputs ==
    {[A |-> st[1], B |-> st[2], C |-> st[3], gap |-> <<" ">>, lines |-> LinesOf(ns),
      style |-> sty, term |-> TRUE, body |-> <<>>, detect |-> "None"] :
        st \in {<<<<"G", "E", "T">>, <<"/">>, <<"H", "T", "T", "P", "/", "1", ".", "1">>>>, <<<<"H", "T", "T", "P", "/", "1", ".", "0">>, <<"2", "0", "0">>, <<"O", "K">>>>},
        ns \in NameLists(MaxLines), sty \in ColonStyles}

\* payloads that vary the body and the presence of the separator
BodyInputs ==
    {[A |-> <<"G", "E", "T">>, B |-> <<"/">>, C |-> <<"H", "T", "T", "P", "/", "1", ".", "1">>, gap |-> <<" ">>, lines |-> ls,
      style |-> <<":", " ">>, term |-> t, body |-> bd.body, detect |-> bd.detect] :
        ls \in {<<>>, <<HostLine>>}, t \in BOOLEAN, bd \in Bodies}

\* start lines with an octet that is no text, and a status that is no number
MalformedStartLines ==
    {<<<<"G", "E", "T">>, <<"/">>, <<"H", "T", "T", "P", "/", "1", ".", "1">>>>,
     <<<<"G", "E", "T", "0xff">>, <<"/">>, <<"H", "T", "T", "P", "/", "1", ".", "1">>>>,
     <<<<"G", "E", "T">>, <<"/", "0xff">>, <<"H", "T", "T", "P", "/", "1", ".", "1">>>>,
     <<<<"H", "T", "T", "P", "/", "1", ".", "0">>, <<"2", "0", "0">>, <<"O", "K">>>>,
     <<<<"H", "T", "T", "P", "/", "1", ".", "0">>, <<"2", "0", "0">>, <<"O", "K", "0xff">>>>,
     <<<<"H", "T", "T", "P", "/", "1", ".", "0">>, <<"2", "0", "0", "a", "b", "c">>, <<"O", "K">>>>,
     <<<<"H", "T", "T", "P", "/", "1", ".", "0", "0xff">>, <<"2", "0", "0">>, <<"O", "K">>>>}

\* field lines with an octet that is no text in the name or in the value
MalformedLines ==
    {<<>>, <<HostLine>>,
     <<[name |-> <<"H", "o", "s", "t", "0xff">>, value |-> <<"a">>]>>,
     <<HostLine, [name |-> <<"A">>, value |-> <<"0xff">>]>>}

\* payloads that break the layout: tokens run together, field lines without
\* a colon, no field line, octets that are no text
MalformedInputs ==
    {[A |-> st[1], B |-> st[2], C |-> st[3], gap |-> g, lines |-> ls, style |-> sty,
      term |-> TRUE, body |-> <<>>, detect |-> "None"] :
        st \in MalformedStartLines, g \in {<<>>, <<" ">>}, ls \in MalformedLines,
        sty \in {<<>>, <<":", " ">>}}

HTTPInputs == StartLineInputs \cup FieldInputs \cup BodyInputs \cup MalformedInputs

\* the payload the sender serialised
HTTPWire(s) ==
    s.A \o s.gap \o s.B \o s.gap \o s.C
    \o Concat([i \in 1 .. Len(s.lines) |->
                  CRLF \o s.lines[i].name \o s.style \o s.lines[i].value])
    \o (IF s.term THEN SEPARATOR ELSE <<>>)
    \o s.body

HTTPInit ==
    /\ sent \in HTTPInputs
    /\ file = HTTPWire(sent)
    /\ pos = 0
    /\ pc = "read_http"
    /\ loc = [stage |-> "start"]
    /\ info = NoneValue

\* HTTPv1.read_http(length), length being the whole payload
read_http ==
    /\ pc = "read_http"
    /\ LET packet == ReadAll(file, pos)
           parts == SplitPacket(packet.val)
           http == ReadHttp(packet.val, sent.detect)
       IN  /\ pos' = packet.end
           /\ loc' = IF Len(parts) = 2
                       THEN [stage |-> "split", header |-> parts[1], body |-> parts[2]]
                       ELSE [stage |-> "nosplit"]
           /\ info' = http
           /\ pc' = IF IsRaised(http) THEN "raised" ELSE "done"
    /\ UNCHANGED <<file, sent>>

HTTPNext == read_http

SpecHTTP == HTTPInit /\ [][HTTPNext]_vars

----
\* Claims about the HTTP/1.x decoder

\* the text is exactly HTTP/<d>.<d>
IsVersionText(t) ==
    /\ Len(t) = 8
    /\ SubSeq(t, 1, 5) = <<"H", "T", "T", "P", "/">>
    /\ t[6] \in Digits /\ t[7] = "." /\ t[8] \in Digits

\* the text is exactly three digits
IsStatusText(t) == Len(t) = 3 /\ \A i \in 1 .. 3 : t[i] \in Digits

\* the text is exactly one of the eight methods
IsMethodText(t) ==
    t \in {<<"G", "E", "T">>,
           <<"H", "E", "A", "D">>,
           <<"P", "O", "S", "T">>,
           <<"P", "U", "T">>,
           <<"D", "E", "L", "E", "T", "E">>,
           <<"C", "O", "N", "N", "E", "C", "T">>,
           <<"O", "P", "T", "I", "O", "N", "S">>,
           <<"T", "R", "A", "C", "E">>}

\* C1: for a payload with the separator whose start line is A B C, with any
\* number of header fields (none included): A a method and C HTTP/<d>.<d>
\* give a request with method A, target B, version <d>.<d>; else A
\* HTTP/<d>.<d> and B three digits give a response with that version,
\* status int(B), phrase C; every other start line fails with ProtocolError.
C1_StartLineClassified ==
    (pc \in {"done", "raised"} /\ sent.term) =>
        IF IsMethodText(sent.A) /\ IsVersionText(sent.C)
            THEN /\ info.type = "http"
                 /\ info.receipt = "request"
                 /\ info.header[1] = [key |-> REQUEST,
                                      val |-> [type |-> "dict", method |-> sent.A,
                                               target |-> sent.B,
                                               version |-> SubSeq(sent.C, 6, 8)]]
        ELSE IF IsVersionText(sent.A) /\ IsStatusText(sent.B)
            THEN /\ info.type = "http"
                 /\ info.receipt = "response"
                 /\ info.header[1] = [key |-> RESPONSE,
                                      val |-> [type |-> "dict",
                                               version |-> SubSeq(sent.A, 6, 8),
                                               status |-> Decimal(sent.B),
                                               phrase |-> sent.C]]
        ELSE info = Raised("ProtocolError")

\* the key the specification stores a field name under
ExactKey(name) ==
    IF name = REQUEST THEN REQUEST_FIELD
    ELSE IF name = RESPONSE THEN RESPONSE_FIELD
    ELSE name

\* the keys of the header record after the start-line entry
FieldKeys(h) == {h[i].key : i \in 2 .. Len(h)}

\* C8: in a decoded message (the separator ending its header fields) only a field named exactly `request` or
\* `response` is stored under a changed key (request_field /
\* response_field); every other name is stored under the name itself.
C8_OnlyExactNamesRenamed ==
    (pc = "done" /\ sent.term) =>
        FieldKeys(info.header) = {ExactKey(sent.lines[i].name) : i \in 1 .. Len(sent.lines)}

\* positions of the field lines that carry the same name as line i
SameName(lines, i) == {j \in 1 .. Len(lines) : lines[j].name = lines[i].name}

\* positions of the lines whose name appears there for the first time, in order
RECURSIVE FirstPositions(_, _)
FirstPositions(lines, i) ==
    IF i > Len(lines) THEN <<>>
    ELSE (IF \A j \in 1 .. i - 1 : lines[j].name # lines[i].name THEN <<i>> ELSE <<>>)
         \o FirstPositions(lines, i + 1)

RECURSIVE ValuesAt(_, _, _)
\* the values of the lines at the positions P, from position i on, in line order
ValuesAt(lines, P, i) ==
    IF i > Len(lines) THEN <<>>
    ELSE (IF i \in P THEN <<[type |-> "str", val |-> lines[i].value]>> ELSE <<>>)
         \o ValuesAt(lines, P, i + 1)

\* C9: in a decoded message (the separator ending its header fields) the header record holds, after the start-line
\* entry, one entry per distinct field name in the order the names first
\* appear; a name on one line is stored as that line's value, a name on
\* k >= 2 lines as the sequence of its k values in line order.
C9_RepeatedFieldsInOrder ==
    (pc = "done" /\ sent.term) =>
        LET first == FirstPositions(sent.lines, 1)
        IN  /\ Len(info.header) = 1 + Len(first)
            /\ \A g \in 1 .. Len(first) :
                  LET vs == ValuesAt(sent.lines, SameName(sent.lines, first[g]), 1)
                  IN  info.header[1 + g].val =
                          IF Len(vs) = 1 THEN vs[1] ELSE [type |-> "tuple", val |-> vs]

\* a name on the first and the third line, another name between them
C9_Witness ==
    /\ pc = "done"
    /\ sent.term
    /\ Len(sent.lines) = 3
    /\ sent.lines[1].name = sent.lines[3].name
    /\ sent.lines[1].name # sent.lines[2].name
    /\ Len(info.header) = 3
    /\ info.header[2].val.type = "tuple"

\* the separator occurs in the text at position i
SeparatorAt(t, i) == i + 3 <= Len(t) /\ SubSeq(t, i, i + 3) = SEPARATOR

\* the positions of the separator in the text
SeparatorPositions(t) == {i \in 1 .. Len(t) : SeparatorAt(t, i)}

\* C10: a payload with the separator is split at its first occurrence, the
\* header block being all before it and the body all after it; a decoded
\* body is the text after the first separator; a payload without the
\* separator fails with ProtocolError and gives no record.
C10_SplitAtFirstSeparator ==
    pc \in {"done", "raised"} =>
        IF SeparatorPositions(file) = {}
            THEN loc.stage = "nosplit" /\ info = Raised("ProtocolError")
            ELSE LET i == CHOOSE k \in SeparatorPositions(file) :
                              \A j \in SeparatorPositions(file) : k <= j
                 IN  /\ loc.stage = "split"
                     /\ loc.header = SubSeq(file, 1, i - 1)
                     /\ loc.body = SubSeq(file, i + 4, Len(file))
                     /\ (pc = "done" /\ info.body # NoneValue /\ sent.detect = "ascii") =>
                            info.body.val = SubSeq(file, i + 4, Len(file))

\* a decoded payload with two separators: the second one is in the body
C10_Witness ==
    /\ pc = "done"
    /\ Cardinality(SeparatorPositions(file)) >= 2
    /\ SeparatorPositions(loc.body) # {}
    /\ info.body # NoneValue

\* a payload without the separator was refused
C10_WitnessNoSeparator ==
    pc = "raised" /\ SeparatorPositions(file) = {} /\ loc.stage = "nosplit"

\* C11: when the header block of a payload decodes, a record is returned and
\* it has the field body: None when the body is empty or detection names no
\* charset, the decoded text when the charset decodes the body, the body
\* octets unchanged when the decoding fails.
C11_BodyFromDetection ==
    (pc \in {"done", "raised"} /\ loc.stage = "split"
        /\ ~IsRaised(ReadHttpHeader(loc.header))) =>
        /\ info.type = "http"
        /\ \E k \in 1 .. Len(info.keys) : info.keys[k] = "body"
        /\ info.body =
              IF loc.body = <<>> \/ sent.detect = "None" THEN NoneValue
              ELSE IF IsRaised(DecodeWith(loc.body, sent.detect))
                  THEN [type |-> "bytes", val |-> loc.body]
                  ELSE DecodeWith(loc.body, sent.detect)

\* the sub-record read_http builds from the start line A B C of a decoded message
StartLineRecord ==
    IF info.receipt = "request"
        THEN [type |-> "dict", method |-> sent.A, target |-> sent.B,
              version |-> SubSeq(sent.C, 6, 8)]
        ELSE [type |-> "dict", version |-> SubSeq(sent.A, 6, 8),
              status |-> Decimal(sent.B), phrase |-> sent.C]

\* C12: after every successful read_http, whatever the header-field lines,
\* the header record holds under the key equal to receipt exactly one entry,
\* the sub-record built from the start line with its version, never a value
\* sequence; alias is HTTP/<version>.
C12_StartLineEntryKept ==
    pc = "done" =>
        /\ info.receipt \in {"request", "response"}
        /\ Cardinality({i \in 1 .. Len(info.header) :
                            info.header[i].key = ReceiptKey(info.receipt)}) = 1
        /\ info.header[KeyIndex(info.header, ReceiptKey(info.receipt))].val
              = StartLineRecord
        /\ Alias(info) = HTTP_SLASH \o StartLineRecord.version

\* a decoded message one of whose field lines is named as its receipt
C12_Witness ==
    /\ pc = "done"
    /\ \E i \in 1 .. Len(sent.lines) : sent.lines[i].name = ReceiptKey(info.receipt)
    /\ Len(sent.lines) >= 2
    /\ Alias(info) = HTTP_SLASH \o StartLineRecord.version

\* C13: for every payload read_http either returns a record with exactly the
\* fields receipt, header, body in that order or fails with ProtocolError;
\* no other failure leaves it.
C13_OnlyProtocolErrorEscapes ==
    /\ pc = "raised" => info = Raised("ProtocolError")
    /\ pc = "done" => (info.type = "http" /\ info.keys = <<"receipt", "header", "body">>)

====
